---- MODULE Spec2Model ----
(***************************************************************************)
(* Model of eg/query-gui-mongodb.ipynb: the login handler (authenticate),  *)
(* the selector chain (db / coll dropdowns, on_select_change), the query   *)
(* submitter (on_button_click, literal_eval) and the result renderer       *)
(* (handle_query).                                                         *)
(*                                                                         *)
(* Texts are sequences of one-character strings.  Python values are tagged *)
(* records, one field set per type, so that values of different types can  *)
(* be compared.                                                            *)
(***************************************************************************)
EXTENDS Integers, Sequences, FiniteSets, TLC

(***************************************************************************)
(* Bounds of the model.                                                    *)
(***************************************************************************)
MaxLogins == 2
MaxRaw == 2
MaxKeys == 2

Range(s) == {s[i] : i \in 1..Len(s)}

(***************************************************************************)
(* Python values.                                                          *)
(***************************************************************************)
PyStr(s) == [t |-> "str", s |-> s]
PyInt(n) == [t |-> "int", n |-> n]
PyBool(b) == [t |-> "bool", b |-> b]
PyNone == [t |-> "none"]
PyDict(items) == [t |-> "dict", items |-> items]
PyList(elems) == [t |-> "list", elems |-> elems]

Digit == <<"0", "1", "2", "3", "4", "5", "6", "7", "8", "9">>
DigitChars == Range(Digit)
Letters == {"T", "r", "u", "e", "F", "a", "l", "s", "N", "o", "n", "k", "p", "q", "m"}

(***************************************************************************)
(* repr(): the text form of a value (str.__repr__, int.__repr__,           *)
(* dict.__repr__).  A string is quoted with ' unless it holds a ' and no   *)
(* "; the quote in use and the backslash are escaped.                      *)
(***************************************************************************)
RECURSIVE ReprChars(_, _)
ReprChars(s, q) ==
    IF s = <<>> THEN <<>>
    ELSE LET c == Head(s)
             e == IF c = "\\" \/ c = q THEN <<"\\", c>> ELSE <<c>>
         IN e \o ReprChars(Tail(s), q)

ReprStr(s) ==
    LET q == IF "'" \in Range(s) /\ "\"" \notin Range(s) THEN "\"" ELSE "'"
    IN <<q>> \o ReprChars(s, q) \o <<q>>

RECURSIVE Digits(_)
Digits(n) == IF n < 10 THEN <<Digit[n + 1]>>
             ELSE Digits(n \div 10) \o <<Digit[(n % 10) + 1]>>

ReprInt(n) == IF n < 0 THEN <<"-">> \o Digits(0 - n) ELSE Digits(n)

RECURSIVE Repr(_)
RECURSIVE ReprItems(_)
RECURSIVE ReprElems(_)
ReprItems(items) ==
    IF items = <<>> THEN <<>>
    ELSE Repr(items[1][1]) \o <<":", " ">> \o Repr(items[1][2])
         \o (IF Len(items) > 1 THEN <<",", " ">> ELSE <<>>)
         \o ReprItems(Tail(items))
ReprElems(elems) ==
    IF elems = <<>> THEN <<>>
    ELSE Repr(elems[1])
         \o (IF Len(elems) > 1 THEN <<",", " ">> ELSE <<>>)
         \o ReprElems(Tail(elems))
Repr(v) ==
    CASE v.t = "str" -> ReprStr(v.s)
      [] v.t = "int" -> ReprInt(v.n)
      [] v.t = "bool" -> IF v.b THEN <<"T", "r", "u", "e">>
                         ELSE <<"F", "a", "l", "s", "e">>
      [] v.t = "none" -> <<"N", "o", "n", "e">>
      [] v.t = "dict" -> <<"{">> \o ReprItems(v.items) \o <<"}">>
      [] v.t = "list" -> <<"[">> \o ReprElems(v.elems) \o <<"]">>

(***************************************************************************)
(* ast.literal_eval(), as on_button_click applies it to the query text,    *)
(* for the literals a filter is written with: dict and list displays,      *)
(* quoted strings (adjacent literals concatenate), decimal integers with   *)
(* an optional sign, True, False and None.  A parse yields a record        *)
(* [ok, val, next]; ok = FALSE stands for the exception literal_eval       *)
(* raises (SyntaxError, ValueError, TypeError).  Escapes that denote       *)
(* characters outside the alphabet of the model (\n, \x41, ...), string    *)
(* prefixes, floats, tuples and sets are outside the modelled subset and   *)
(* are reported as a failed parse; no text of the model uses them.         *)
(***************************************************************************)
Fail == [ok |-> FALSE, val |-> PyNone, next |-> 0]
Parsed(v, n) == [ok |-> TRUE, val |-> v, next |-> n]

Quotes == {"'", "\""}
RecognisedEscapes == {"a", "b", "f", "n", "r", "t", "v", "x", "N", "u", "U",
                      "0", "1", "2", "3", "4", "5", "6", "7"}

RECURSIVE SkipWs(_, _)
SkipWs(t, i) == IF i <= Len(t) /\ t[i] = " " THEN SkipWs(t, i + 1) ELSE i

RECURSIVE ParseStrBody_no_escapes(_, _, _, _)
ParseStrBody_no_escapes(t, i, q, acc) ==
    IF i > Len(t) THEN Fail
    ELSE IF t[i] = q THEN Parsed(PyStr(acc), i + 1)
    ELSE ParseStrBody_no_escapes(t, i + 1, q, Append(acc, t[i]))

RECURSIVE ParseStrBody(_, _, _, _)
ParseStrBody(t, i, q, acc) ==
    IF i > Len(t) THEN Fail
    ELSE IF t[i] = q THEN Parsed(PyStr(acc), i + 1)
    ELSE IF t[i] = "\\" THEN
        IF i + 1 > Len(t) THEN Fail
        ELSE IF t[i + 1] \in {"\\", "'", "\""}
             THEN ParseStrBody(t, i + 2, q, Append(acc, t[i + 1]))
        ELSE IF t[i + 1] \in RecognisedEscapes THEN Fail
        ELSE ParseStrBody(t, i + 2, q, acc \o <<"\\", t[i + 1]>>)
    ELSE ParseStrBody(t, i + 1, q, Append(acc, t[i]))

RECURSIVE ParseStrings(_, _, _)
ParseStrings(t, i, acc) ==
    LET r == ParseStrBody(t, i + 1, t[i], <<>>)
        j == SkipWs(t, r.next)
    IN IF ~r.ok THEN Fail
       ELSE IF j <= Len(t) /\ t[j] \in Quotes
            THEN ParseStrings(t, j, acc \o r.val.s)
       ELSE Parsed(PyStr(acc \o r.val.s), r.next)

RECURSIVE RunEnd(_, _, _)
RunEnd(t, i, chars) ==
    IF i <= Len(t) /\ t[i] \in chars THEN RunEnd(t, i + 1, chars) ELSE i

DigitVal(c) == CHOOSE d \in 0..9 : Digit[d + 1] = c

RECURSIVE NumVal(_)
NumVal(ds) == IF ds = <<>> THEN 0
              ELSE 10 * NumVal(SubSeq(ds, 1, Len(ds) - 1)) + DigitVal(ds[Len(ds)])

ParseNumber(t, i) ==
    LET j == RunEnd(t, i, DigitChars)
        ds == SubSeq(t, i, j - 1)
    IN IF j = i THEN Fail
       ELSE IF ds[1] = "0" /\ Range(ds) # {"0"} THEN Fail
       ELSE IF j <= Len(t) /\ t[j] \in Letters THEN Fail
       ELSE Parsed(PyInt(NumVal(ds)), j)

ParseSigned(t, i) ==
    LET j == SkipWs(t, i + 1)
        r == ParseNumber(t, j)
    IN IF j > Len(t) \/ ~r.ok THEN Fail
       ELSE IF t[i] = "-" THEN Parsed(PyInt(0 - r.val.n), r.next)
       ELSE r

ParseName(t, i) ==
    LET j == RunEnd(t, i, Letters \cup DigitChars)
        w == SubSeq(t, i, j - 1)
    IN IF j <= Len(t) /\ t[j] \in Quotes THEN Fail
       ELSE IF w = <<"T", "r", "u", "e">> THEN Parsed(PyBool(TRUE), j)
       ELSE IF w = <<"F", "a", "l", "s", "e">> THEN Parsed(PyBool(FALSE), j)
       ELSE IF w = <<"N", "o", "n", "e">> THEN Parsed(PyNone, j)
       ELSE Fail

\* Python compares and hashes True as 1 and False as 0.
NumOf(v) == IF v.t = "int" THEN v.n ELSE IF v.b THEN 1 ELSE 0
KeyEq(a, b) ==
    \/ a = b
    \/ a.t \in {"int", "bool"} /\ b.t \in {"int", "bool"} /\ NumOf(a) = NumOf(b)

\* dict(zip(keys, values)): a repeated key keeps its first place, last value.
Put(items, k, v) ==
    IF \E n \in 1..Len(items) : KeyEq(items[n][1], k)
    THEN [n \in 1..Len(items) |->
            IF KeyEq(items[n][1], k) THEN <<items[n][1], v>> ELSE items[n]]
    ELSE Append(items, <<k, v>>)

RECURSIVE ParseValue(_, _)
RECURSIVE ParseDictItems(_, _, _)
RECURSIVE ParseListElems(_, _, _)

ParseDictItems(t, i0, items) ==
    LET i == SkipWs(t, i0)
    IN IF i > Len(t) THEN Fail
       ELSE IF t[i] = "}" THEN Parsed(PyDict(items), i + 1)
       ELSE LET k == ParseValue(t, i)
                c == IF k.ok THEN SkipWs(t, k.next) ELSE 0
                colon == k.ok /\ c <= Len(t) /\ t[c] = ":"
                v == IF colon THEN ParseValue(t, SkipWs(t, c + 1)) ELSE Fail
                e == IF v.ok THEN SkipWs(t, v.next) ELSE 0
            IN IF ~k.ok \/ ~colon \/ ~v.ok THEN Fail
               ELSE IF k.val.t \in {"dict", "list"} THEN Fail
               ELSE IF e > Len(t) THEN Fail
               ELSE IF t[e] = "," THEN ParseDictItems(t, e + 1, Put(items, k.val, v.val))
               ELSE IF t[e] = "}" THEN Parsed(PyDict(Put(items, k.val, v.val)), e + 1)
               ELSE Fail

ParseListElems(t, i0, elems) ==
    LET i == SkipWs(t, i0)
    IN IF i > Len(t) THEN Fail
       ELSE IF t[i] = "]" THEN Parsed(PyList(elems), i + 1)
       ELSE LET v == ParseValue(t, i)
                e == IF v.ok THEN SkipWs(t, v.next) ELSE 0
            IN IF ~v.ok \/ e > Len(t) THEN Fail
               ELSE IF t[e] = "," THEN ParseListElems(t, e + 1, Append(elems, v.val))
               ELSE IF t[e] = "]" THEN Parsed(PyList(Append(elems, v.val)), e + 1)
               ELSE Fail

ParseValue(t, i) ==
    IF i > Len(t) THEN Fail
    ELSE IF t[i] = "{" THEN ParseDictItems(t, i + 1, <<>>)
    ELSE IF t[i] = "[" THEN ParseListElems(t, i + 1, <<>>)
    ELSE IF t[i] \in Quotes THEN ParseStrings(t, i, <<>>)
    ELSE IF t[i] \in {"-", "+"} THEN ParseSigned(t, i)
    ELSE IF t[i] \in DigitChars THEN ParseNumber(t, i)
    ELSE IF t[i] \in Letters THEN ParseName(t, i)
    ELSE Fail

literal_eval(t) ==
    LET r == ParseValue(t, SkipWs(t, 1))
    IN IF r.ok /\ SkipWs(t, r.next) = Len(t) + 1 THEN r ELSE Fail

(***************************************************************************)
(* The remote metadata store as the client exposes it: collection_names,   *)
(* an insertion-ordered mapping store name -> list of sub-collection       *)
(* names, here a sequence of [store, colls] records with distinct stores.  *)
(* The remote may list different stores and sub-collections at different   *)
(* logins.                                                                 *)
(***************************************************************************)
Stores == {"S1", "S2"}
Colls == {"c1", "c2"}
Ids == {"a.pp", "b.pp"}

NoValue == "None"
LogInFirst == "Log in first..."
MsgSuccess == "Successfully logged in."
MsgFailure == "Login unsuccessful."

\* What the remote lists at one time or another.
Catalogs == {<<>>,
             <<[store |-> "S1", colls |-> <<"c1">>],
               [store |-> "S2", colls |-> <<"c1", "c2">>]>>,
             <<[store |-> "S1", colls |-> <<"c1", "c2">>],
               [store |-> "S2", colls |-> <<"c1">>]>>,
             <<[store |-> "S2", colls |-> <<"c1">>]>>}

Keys(names) == [i \in 1..Len(names) |-> names[i].store]
Has(names, s) == \E i \in 1..Len(names) : names[i].store = s
Lookup(names, s) == names[CHOOSE i \in 1..Len(names) : names[i].store = s].colls

\* A client object; id = 0 stands for the global name client not yet bound.
\* ok = FALSE: reading collection_names raises.
NoClient == [id |-> 0, ok |-> FALSE, names |-> <<>>]

\* client: the global name; db, coll, query, search: the widgets;
\* login_output, list_out, cl_out: the output regions.
\* live: the client objects constructed and neither closed nor reclaimed;
\* last: what the most recent on_button_click did; succeeded: some
\* authenticate call has ended in its else branch.
\* rtStage .. rtAgain: the state of the literal_eval round trip (SpecRT).
VARIABLES client, live, db, coll, query, search,
          login_output, list_out, cl_out, last, succeeded,
          rtStage, rtMap, rtText, rtParsed, rtAgain,
          evQueue, evRuns, evIssued, evListBy, evClBy

gui == <<client, live, db, coll, query, search,
         login_output, list_out, cl_out, last, succeeded>>
rt == <<rtStage, rtMap, rtText, rtParsed, rtAgain>>
ev == <<evQueue, evRuns, evIssued, evListBy, evClBy>>
vars == <<gui, rt, ev>>

(***************************************************************************)
(* ipywidgets.Dropdown: setting the options trait to a different value     *)
(* selects the first option (no option: the value None); setting it to an  *)
(* equal value notifies nobody and keeps the selection.                    *)
(***************************************************************************)
SetOptions(w, opts) ==
    IF opts = w.options THEN w
    ELSE [w EXCEPT !.options = opts,
                   !.value = IF opts = <<>> THEN NoValue ELSE opts[1]]

Raised(s) == [raised |-> TRUE, s |-> s]
Done(s) == [raised |-> FALSE, s |-> s]

\* The session the handlers read and write: the global client and the widgets.
Session == [client |-> client, db |-> db, coll |-> coll,
            query |-> query, search |-> search]

on_select_change_keeps(s, new) ==
    IF s.client.id = 0 \/ ~s.client.ok \/ ~Has(s.client.names, new)
    THEN Raised(s)
    ELSE Done([s EXCEPT !.coll = SetOptions(s.coll, s.coll.options
                                                    \o Lookup(s.client.names, new))])

on_select_change_raises(s, new) == Raised(s)

on_select_change(s, new) ==
    IF s.client.id = 0 \/ ~s.client.ok \/ ~Has(s.client.names, new)
    THEN Raised(s)
    ELSE Done([s EXCEPT !.coll = SetOptions(s.coll, Lookup(s.client.names, new))])

\* db.observe(on_select_change, names="value"): the callback runs when the
\* store selector's value changes, whoever changes it.
ObserveDb(old, s) ==
    IF s.db.value = old.db.value THEN Done(s) ELSE on_select_change(s, s.db.value)

EnableInputs(s) ==
    [s EXCEPT !.query.disabled = FALSE, !.search.disabled = FALSE]

authenticate_try_keeps_client(s, res) ==
    IF res.raised THEN Raised(s)
    ELSE LET s1 == IF s.client.id = 0 THEN [s EXCEPT !.client = res.client] ELSE s
         IN IF ~s1.client.ok THEN Raised(s1)
            ELSE LET s2 == [s1 EXCEPT !.db = SetOptions(s1.db, Keys(s1.client.names))]
                     o == ObserveDb(s1, s2)
                 IN IF o.raised THEN o ELSE Done(EnableInputs(o.s))

authenticate_try_enables_anyway(s, res) ==
    IF res.raised THEN Raised(EnableInputs(s))
    ELSE LET s1 == [s EXCEPT !.client = res.client]
         IN IF ~res.client.ok THEN Raised(EnableInputs(s1))
            ELSE LET s2 == [s1 EXCEPT !.db = SetOptions(s1.db, Keys(res.client.names))]
                     o == ObserveDb(s1, s2)
                 IN IF o.raised THEN Raised(EnableInputs(o.s)) ELSE Done(EnableInputs(o.s))

authenticate_try_swallows(s, res) ==
    IF res.raised THEN Done(s)
    ELSE LET s1 == [s EXCEPT !.client = res.client]
         IN IF ~res.client.ok THEN Done(s1)
            ELSE LET s2 == [s1 EXCEPT !.db = SetOptions(s1.db, Keys(res.client.names))]
                     o == ObserveDb(s1, s2)
                 IN IF o.raised THEN Done(o.s) ELSE Done(EnableInputs(o.s))

\* The try block of authenticate.  res is what Client(host=conn_str) does:
\* it raises, or it returns a client whose collection_names can be read
\* (res.ok) or whose collection_names raises.
authenticate_try(s, res) ==
    IF res.raised THEN Raised(s)
    ELSE LET s1 == [s EXCEPT !.client = res.client]
         IN IF ~res.client.ok THEN Raised(s1)
            ELSE LET s2 == [s1 EXCEPT !.db = SetOptions(s1.db, Keys(res.client.names))]
                     o == ObserveDb(s1, s2)
                 IN IF o.raised THEN o ELSE Done(EnableInputs(o.s))

(***************************************************************************)
(* Output regions.  An Output widget shows what was printed or displayed   *)
(* in it since it was last cleared.                                        *)
(***************************************************************************)
EmptyOut == [kind |-> "empty", ids |-> <<>>]
NoResults == [kind |-> "No results.", ids |-> <<>>]
MatchingFiles(result) == [kind |-> "Matching files:", ids |-> result]
Dots == [kind |-> "...", ids |-> <<>>]
CubeList(result) == [kind |-> "cubes", ids |-> result]

RawLists == UNION {[1..n -> Ids] : n \in 0..MaxRaw}
QueryResults == {[raised |-> TRUE, raw |-> <<>>]}
                \cup {[raised |-> FALSE, raw |-> r] : r \in RawLists}

ListOfSet_keeps_repeats(raw) == {raw}

\* list(set(result)): the distinct elements, in an order Python does not fix.
ListOfSet(raw) ==
    LET S == Range(raw)
    IN {f \in [1..Cardinality(S) -> S] : \A i, j \in 1..Cardinality(S) : f[i] = f[j] => i = j}

\* The list_out block of handle_query.
ShowFiles(result) ==
    IF Len(result) > 0 THEN MatchingFiles(result) ELSE NoResults

ShowCubes_always(cl, result, loads) ==
    IF loads
    THEN [raised |-> FALSE, cl_out |-> CubeList(result),
          steps |-> <<"cl_out: ...", "iris.load", "cl_out: cubes">>]
    ELSE [raised |-> TRUE, cl_out |-> Dots,
          steps |-> <<"cl_out: ...", "iris.load">>]

ShowCubes_load_first(cl, result, loads) ==
    IF Len(result) > 0
    THEN IF loads
         THEN [raised |-> FALSE, cl_out |-> CubeList(result),
               steps |-> <<"iris.load", "cl_out: ...", "cl_out: cubes">>]
         ELSE [raised |-> TRUE, cl_out |-> cl, steps |-> <<"iris.load">>]
    ELSE [raised |-> FALSE, cl_out |-> cl, steps |-> <<>>]

\* The cl_out block of handle_query: [raised, cl_out, steps].  loads = FALSE:
\* iris.load raises.
ShowCubes(cl, result, loads) ==
    IF Len(result) > 0
    THEN IF loads
         THEN [raised |-> FALSE, cl_out |-> CubeList(result),
               steps |-> <<"cl_out: ...", "iris.load", "cl_out: cubes">>]
         ELSE [raised |-> TRUE, cl_out |-> Dots,
               steps |-> <<"cl_out: ...", "iris.load">>]
    ELSE [raised |-> FALSE, cl_out |-> cl, steps |-> <<>>]

\* handle_query on the outputs out = [list_out, cl_out] with the client c:
\* qres is what client.query does, result the order list(set(...)) yields,
\* loads whether iris.load returns.
handle_query(out, c, qres, result, loads) ==
    IF c.id = 0
    THEN [raised |-> TRUE, list_out |-> out.list_out, cl_out |-> out.cl_out,
          steps |-> <<>>, raw |-> <<>>]
    ELSE IF qres.raised
    THEN [raised |-> TRUE, list_out |-> out.list_out, cl_out |-> out.cl_out,
          steps |-> <<"client.query">>, raw |-> <<>>]
    ELSE LET c2 == ShowCubes(out.cl_out, result, loads)
         IN [raised |-> c2.raised, list_out |-> ShowFiles(result), cl_out |-> c2.cl_out,
             steps |-> <<"client.query", "list_out">> \o c2.steps,
             raw |-> qres.raw]

\* What the most recent run of on_button_click did: how it ended (outcome),
\* the calls it made in order (steps) and what client.query returned (raw).
Ran(outcome) == [outcome |-> outcome, steps |-> <<>>, raw |-> <<>>]

\* The texts the query box can hold: nothing (its initial value) or a filter.
FilterText == Repr(PyDict(<< <<PyStr(<<"k">>), PyStr(<<"p">>)>> >>))
QueryTexts == {<<>>, FilterText}

\* What Client(host=conn_str) can do with the password typed, at the n-th
\* login: raise, or return a client whose store names can or cannot be read.
ClientResults(n) ==
    {[raised |-> TRUE, client |-> NoClient]}
    \cup {[raised |-> FALSE, client |-> [id |-> n, ok |-> FALSE, names |-> <<>>]]}
    \cup {[raised |-> FALSE, client |-> [id |-> n, ok |-> TRUE, names |-> m]] :
            m \in Catalogs}

InitQuery_enabled == [value |-> <<>>, disabled |-> FALSE]

\* query = widgets.Text(value="", ..., disabled=True)
InitQuery == [value |-> <<>>, disabled |-> TRUE]

(***************************************************************************)
(* State after the notebook's cells have run.                              *)
(***************************************************************************)
InitGui ==
    /\ client = NoClient
    /\ live = {}
    /\ db = [options |-> <<LogInFirst>>, value |-> LogInFirst, disabled |-> FALSE]
    /\ coll = [options |-> <<LogInFirst>>, value |-> LogInFirst, disabled |-> FALSE]
    /\ query = InitQuery
    /\ search = [disabled |-> TRUE]
    /\ login_output = <<>>
    /\ list_out = EmptyOut
    /\ cl_out = EmptyOut
    /\ last = Ran("never")
    /\ succeeded = FALSE

InitRtIdle ==
    /\ rtStage = "idle"
    /\ rtMap = PyDict(<<>>)
    /\ rtText = <<>>
    /\ rtParsed = Fail
    /\ rtAgain = <<>>

\* No widget event is pending and no callback is running.
InitEvIdle ==
    /\ evQueue = <<>>
    /\ evRuns = {}
    /\ evIssued = 0
    /\ evListBy = 0
    /\ evClBy = 0

Init == InitGui /\ InitRtIdle /\ InitEvIdle

SetSession(s) ==
    /\ client' = s.client
    /\ db' = s.db
    /\ coll' = s.coll
    /\ query' = s.query
    /\ search' = s.search

(***************************************************************************)
(* The user's actions and the callbacks they run.                          *)
(***************************************************************************)
\* Click on "Log In": authenticate(b), its try block and its except / else.
Authenticate ==
    /\ Len(login_output) < MaxLogins
    /\ \E res \in ClientResults(Len(login_output) + 1) :
        LET r == authenticate_try(Session, res)
        IN /\ SetSession(r.s)
           /\ live' = IF res.raised THEN live ELSE live \cup {res.client.id}
           /\ login_output' = Append(login_output,
                                     IF r.raised THEN MsgFailure ELSE MsgSuccess)
           /\ succeeded' = (succeeded \/ ~r.raised)
    /\ UNCHANGED <<list_out, cl_out, last, rt, ev>>

\* The runtime may reclaim a client object no name refers to any more; the
\* notebook never closes one.
Reclaim ==
    \E h \in live \ {client.id} :
        /\ live' = live \ {h}
        /\ UNCHANGED <<client, db, coll, query, search, login_output,
                       list_out, cl_out, last, succeeded, rt, ev>>

\* The user picks another store in the DB dropdown.
SelectStore ==
    \E v \in Range(db.options) :
        /\ ~db.disabled
        /\ v # db.value
        /\ LET s == [Session EXCEPT !.db.value = v]
               r == ObserveDb(Session, s)
           IN SetSession(r.s)
        /\ UNCHANGED <<live, login_output, list_out, cl_out, last, succeeded, rt, ev>>

\* The user picks another sub-collection in the Collection dropdown.
SelectColl ==
    \E v \in Range(coll.options) :
        /\ ~coll.disabled
        /\ v # coll.value
        /\ coll' = [coll EXCEPT !.value = v]
        /\ UNCHANGED <<client, live, db, query, search, login_output,
                       list_out, cl_out, last, succeeded, rt, ev>>

\* The user edits the query box.
TypeQuery ==
    \E t \in QueryTexts :
        /\ ~query.disabled
        /\ t # query.value
        /\ query' = [query EXCEPT !.value = t]
        /\ UNCHANGED <<client, live, db, coll, search, login_output,
                       list_out, cl_out, last, succeeded, rt, ev>>

Search_clears_first ==
    /\ ~search.disabled
    /\ LET p == literal_eval(query.value)
       IN IF ~p.ok
          THEN /\ last' = Ran("literal_eval raised")
               /\ list_out' = EmptyOut
               /\ UNCHANGED cl_out
          ELSE \E qres \in QueryResults, loads \in BOOLEAN :
                 \E result \in ListOfSet(qres.raw) :
                   LET r == handle_query([list_out |-> list_out, cl_out |-> cl_out],
                                         client, qres, result, loads)
                   IN /\ list_out' = r.list_out
                      /\ cl_out' = r.cl_out
                      /\ last' = [outcome |-> IF r.raised THEN "handle_query raised"
                                              ELSE "returned",
                                  steps |-> r.steps, raw |-> r.raw]
    /\ UNCHANGED <<client, live, db, coll, query, search, login_output,
                   succeeded, rt, ev>>

\* Click on "Search": on_button_click(b).
Search ==
    /\ ~search.disabled
    /\ LET p == literal_eval(query.value)
       IN IF ~p.ok
          THEN /\ last' = Ran("literal_eval raised")
               /\ UNCHANGED <<list_out, cl_out>>
          ELSE \E qres \in QueryResults, loads \in BOOLEAN :
                 \E result \in ListOfSet(qres.raw) :
                   LET r == handle_query([list_out |-> list_out, cl_out |-> cl_out],
                                         client, qres, result, loads)
                   IN /\ list_out' = r.list_out
                      /\ cl_out' = r.cl_out
                      /\ last' = [outcome |-> IF r.raised THEN "handle_query raised"
                                              ELSE "returned",
                                  steps |-> r.steps, raw |-> r.raw]
    /\ UNCHANGED <<client, live, db, coll, query, search, login_output,
                   succeeded, rt, ev>>

Next ==
    \/ Authenticate
    \/ Reclaim
    \/ SelectStore
    \/ SelectColl
    \/ TypeQuery
    \/ Search

Spec == Init /\ [][Next]_vars

(***************************************************************************)
(* The round trip text form -> literal_eval -> text form, on the filter    *)
(* mappings with string keys and scalar values over a small alphabet that  *)
(* holds both quotes and the backslash.                                    *)
(***************************************************************************)
KeyStrings == {<<"k">>, <<"p", ".", "q">>, <<"k", "'">>}
ValueStrings == {<<>>, <<"p", " ", "q">>, <<"'", "\"">>, <<"\\", "n">>}
ScalarValues ==
    {PyStr(x) : x \in ValueStrings}
    \cup {PyInt(n) : n \in {0, 7, 0 - 12}}
    \cup {PyBool(TRUE), PyBool(FALSE), PyNone}
FilterMappings ==
    UNION {{PyDict(f) : f \in {g \in [1..n -> {PyStr(k) : k \in KeyStrings} \X ScalarValues] :
                                 \A i, j \in 1..n : g[i][1] = g[j][1] => i = j}} :
           n \in 0..MaxKeys}

InitRT ==
    /\ InitGui
    /\ InitEvIdle
    /\ rtStage = "mapping"
    /\ rtMap \in FilterMappings
    /\ rtText = <<>>
    /\ rtParsed = Fail
    /\ rtAgain = <<>>

RtSerialize ==
    /\ rtStage = "mapping"
    /\ rtStage' = "text"
    /\ rtText' = Repr(rtMap)
    /\ UNCHANGED <<gui, ev, rtMap, rtParsed, rtAgain>>

RtParse ==
    /\ rtStage = "text"
    /\ rtStage' = "parsed"
    /\ rtParsed' = literal_eval(rtText)
    /\ UNCHANGED <<gui, ev, rtMap, rtText, rtAgain>>

RtReserialize ==
    /\ rtStage = "parsed"
    /\ rtStage' = "again"
    /\ rtAgain' = IF rtParsed.ok THEN Repr(rtParsed.val) ELSE <<>>
    /\ UNCHANGED <<gui, ev, rtMap, rtText, rtParsed>>

NextRT == RtSerialize \/ RtParse \/ RtReserialize

SpecRT == InitRT /\ [][NextRT]_vars

(***************************************************************************)
(* The callbacks as the kernel runs them: every user action on a widget    *)
(* becomes a message to the kernel, which calls the registered callback.   *)
(* The callbacks are plain functions that call one another directly        *)
(* (on_button_click calls handle_query) and start no thread or task.       *)
(***************************************************************************)
MaxEvents == 4

Event(n, kind, v, t) == [n |-> n, kind |-> kind, v |-> v, t |-> t]
Pending(kind) ==
    Cardinality({i \in 1..Len(evQueue) : evQueue[i].kind = kind})
    + Cardinality({r \in evRuns : r.kind = kind})

KernelIdle_always(runs) == TRUE

\* The kernel takes the next message only when the callback it called for
\* the previous one has returned or raised.
KernelIdle(runs) == runs = {}

Enqueue(kind, v, t) ==
    /\ evIssued < MaxEvents
    /\ evIssued' = evIssued + 1
    /\ evQueue' = Append(evQueue, Event(evIssued + 1, kind, v, t))
    /\ UNCHANGED <<gui, rt, evRuns, evListBy, evClBy>>

\* The user's actions on the widgets.
UserLogin ==
    /\ Len(login_output) + Pending("login") < MaxLogins
    /\ Enqueue("login", NoValue, <<>>)

UserSelect ==
    \E v \in Range(db.options) :
        /\ ~db.disabled
        /\ v # db.value
        /\ Enqueue("select", v, <<>>)

UserType ==
    \E t \in QueryTexts :
        /\ ~query.disabled
        /\ t # query.value
        /\ Enqueue("type", NoValue, t)

UserSearch ==
    /\ ~search.disabled
    /\ Enqueue("search", NoValue, <<>>)

\* The kernel calls the callback registered for the oldest pending message.
Dispatch ==
    /\ evQueue # <<>>
    /\ KernelIdle(evRuns)
    /\ evQueue' = Tail(evQueue)
    /\ evRuns' = evRuns \cup {[n |-> evQueue[1].n, kind |-> evQueue[1].kind,
                               v |-> evQueue[1].v, t |-> evQueue[1].t,
                               pc |-> "called", result |-> <<>>]}
    /\ UNCHANGED <<gui, rt, evIssued, evListBy, evClBy>>

Returns(r) == evRuns' = evRuns \ {r}
Goes(r, pc, result) ==
    evRuns' = (evRuns \ {r}) \cup {[r EXCEPT !.pc = pc, !.result = result]}

\* authenticate(b), called for a click on "Log In".
RunAuthenticate ==
    \E r \in evRuns :
        /\ r.kind = "login" /\ r.pc = "called"
        /\ \E res \in ClientResults(Len(login_output) + 1) :
            LET a == authenticate_try(Session, res)
            IN /\ SetSession(a.s)
               /\ live' = IF res.raised THEN live ELSE live \cup {res.client.id}
               /\ login_output' = Append(login_output,
                                         IF a.raised THEN MsgFailure ELSE MsgSuccess)
               /\ succeeded' = (succeeded \/ ~a.raised)
        /\ Returns(r)
        /\ UNCHANGED <<list_out, cl_out, last, rt, evQueue, evIssued, evListBy, evClBy>>

\* The DB dropdown takes the value the user picked and calls on_select_change.
RunSelect ==
    \E r \in evRuns :
        /\ r.kind = "select" /\ r.pc = "called"
        /\ IF r.v \in Range(db.options) /\ r.v # db.value
           THEN LET s == [Session EXCEPT !.db.value = r.v]
                IN SetSession(ObserveDb(Session, s).s)
           ELSE UNCHANGED <<client, db, coll, query, search>>
        /\ Returns(r)
        /\ UNCHANGED <<live, login_output, list_out, cl_out, last, succeeded,
                       rt, evQueue, evIssued, evListBy, evClBy>>

\* The query box takes the text the user typed; no callback is registered.
RunType ==
    \E r \in evRuns :
        /\ r.kind = "type" /\ r.pc = "called"
        /\ query' = [query EXCEPT !.value = r.t]
        /\ Returns(r)
        /\ UNCHANGED <<client, live, db, coll, search, login_output, list_out,
                       cl_out, last, succeeded, rt, evQueue, evIssued,
                       evListBy, evClBy>>

\* on_button_click(b): literal_eval(query.value), then the call of handle_query.
RunLiteralEval ==
    \E r \in evRuns :
        /\ r.kind = "search" /\ r.pc = "called"
        /\ IF literal_eval(query.value).ok
           THEN Goes(r, "client.query", <<>>)
           ELSE Returns(r)
        /\ UNCHANGED <<gui, rt, evQueue, evIssued, evListBy, evClBy>>

\* handle_query: result = client.query(...); result = list(set(result)).
RunClientQuery ==
    \E r \in evRuns :
        /\ r.kind = "search" /\ r.pc = "client.query"
        /\ \E qres \in QueryResults :
             IF client.id = 0 \/ qres.raised
             THEN Returns(r)
             ELSE \E result \in ListOfSet(qres.raw) : Goes(r, "list_out", result)
        /\ UNCHANGED <<gui, rt, evQueue, evIssued, evListBy, evClBy>>

\* handle_query: the list_out block.
RunListOut ==
    \E r \in evRuns :
        /\ r.kind = "search" /\ r.pc = "list_out"
        /\ list_out' = ShowFiles(r.result)
        /\ evListBy' = r.n
        /\ IF Len(r.result) > 0
           THEN Goes(r, "cl_out: ...", r.result)
           ELSE Returns(r)
        /\ UNCHANGED <<client, live, db, coll, query, search, login_output,
                       cl_out, last, succeeded, rt, evQueue, evIssued, evClBy>>

\* handle_query: cl_out is cleared and shows "...".
RunPlaceholder ==
    \E r \in evRuns :
        /\ r.kind = "search" /\ r.pc = "cl_out: ..."
        /\ cl_out' = Dots
        /\ evClBy' = r.n
        /\ Goes(r, "iris.load", r.result)
        /\ UNCHANGED <<client, live, db, coll, query, search, login_output,
                       list_out, last, succeeded, rt, evQueue, evIssued, evListBy>>

\* handle_query: cl = iris.load(result).
RunIrisLoad ==
    \E r \in evRuns :
        /\ r.kind = "search" /\ r.pc = "iris.load"
        /\ \E loads \in BOOLEAN :
             IF loads THEN Goes(r, "cl_out: cubes", r.result) ELSE Returns(r)
        /\ UNCHANGED <<gui, rt, evQueue, evIssued, evListBy, evClBy>>

\* handle_query: "..." is replaced by the cubes.
RunCubes ==
    \E r \in evRuns :
        /\ r.kind = "search" /\ r.pc = "cl_out: cubes"
        /\ cl_out' = CubeList(r.result)
        /\ evClBy' = r.n
        /\ Returns(r)
        /\ UNCHANGED <<client, live, db, coll, query, search, login_output,
                       list_out, last, succeeded, rt, evQueue, evIssued, evListBy>>

NextEv ==
    \/ UserLogin
    \/ UserSelect
    \/ UserType
    \/ UserSearch
    \/ Dispatch
    \/ RunAuthenticate
    \/ RunSelect
    \/ RunType
    \/ RunLiteralEval
    \/ RunClientQuery
    \/ RunListOut
    \/ RunPlaceholder
    \/ RunIrisLoad
    \/ RunCubes

SpecEv == Init /\ [][NextEv]_vars

(***************************************************************************)
(* Properties.                                                             *)
(***************************************************************************)
LastLogin == login_output[Len(login_output)]
AfterFailedLogin == login_output # <<>> /\ LastLogin = MsgFailure
Steps == Range(last.steps)
QueryReturned == "list_out" \in Steps
NoRepeats(l) == \A i, j \in 1..Len(l) : l[i] = l[j] => i = j

\* C1 as stated: after an authenticate call that fails, the store selector,
\* the sub-collection selector and the query input are all disabled.
C1_AllDisabledAfterFailure ==
    AfterFailedLogin => db.disabled /\ coll.disabled /\ query.disabled

\* C1 amended: after an authenticate call that fails, the query input and
\* the Search button are disabled exactly when no earlier call succeeded;
\* the two selectors are enabled.
C1_FailureLeavesFlags ==
    AfterFailedLogin =>
        /\ query.disabled = ~succeeded
        /\ search.disabled = ~succeeded
        /\ ~db.disabled /\ ~coll.disabled

C1_FailedAfterSuccess ==
    /\ Len(login_output) = 2
    /\ login_output[1] = MsgSuccess /\ login_output[2] = MsgFailure
    /\ ~query.disabled /\ ~search.disabled

\* C2: on_button_click runs, and a query reaches client.query, only after an
\* authenticate call has succeeded; until then the query input and the
\* Search button are disabled, and no search runs while client is unbound.
C2_QueryOnlyAfterLogin ==
    /\ ~succeeded => query.disabled /\ search.disabled /\ last.outcome = "never"
    /\ "client.query" \in Steps => succeeded /\ client.id # 0
    /\ last.outcome # "never" => client.id # 0

C2_QuerySent == "client.query" \in Steps /\ succeeded

\* C3: when the store selector's value changes from one store of the
\* connected client to another, the sub-collection options become exactly
\* the list the client gives for the new store.
C3_SelectReplaces ==
    [][(/\ db'.value # db.value
        /\ client'.ok
        /\ Has(client'.names, db.value)
        /\ Has(client'.names, db'.value))
       => coll'.options = Lookup(client'.names, db'.value)]_vars

C3_SecondStoreSelected ==
    /\ Len(db.options) = 2 /\ db.value = db.options[2]
    /\ client.ok /\ Keys(client.names) = db.options
    /\ coll.options = Lookup(client.names, db.value)
    /\ coll.options # Lookup(client.names, db.options[1])

\* C4: a query that returns no identifier shows "No results.", makes no
\* iris.load call and does not print the "..." placeholder; iris.load is
\* called exactly when the deduplicated list is not empty.
C4_EmptyNoDecode ==
    QueryReturned =>
        /\ last.raw = <<>> =>
              /\ list_out = NoResults
              /\ "iris.load" \notin Steps
              /\ "cl_out: ..." \notin Steps
        /\ "iris.load" \in Steps <=> list_out.ids # <<>>

C4_EmptyResult ==
    last.outcome = "returned" /\ last.raw = <<>> /\ list_out = NoResults

\* C5: the list shown and decoded holds each distinct identifier of the raw
\* list once and nothing else.
C5_Dedup ==
    QueryReturned =>
        /\ Range(list_out.ids) = Range(last.raw)
        /\ NoRepeats(list_out.ids)
        /\ "cl_out: cubes" \in Steps => cl_out = CubeList(list_out.ids)

C5_RepeatsDropped ==
    /\ last.outcome = "returned"
    /\ Len(last.raw) = 2 /\ Len(list_out.ids) = 1
    /\ cl_out = CubeList(list_out.ids)

\* C6 as stated: at most one live connection to the remote store exists.
C6_OneLiveConnection == Cardinality(live) <= 1

\* C6 amended: the name client refers to at most one client object, the
\* one the most recent constructing authenticate call made; replaced
\* objects are not closed and stay live until the runtime reclaims them.
C6_ClientIsLatest ==
    /\ client.id = 0 <=> live = {}
    /\ client.id # 0 => client.id \in live /\ \A h \in live : h <= client.id

C6_TwoLive == Cardinality(live) = 2 /\ client.id = 2

\* C7: the store selector holds a real store name only after an
\* authenticate call has succeeded.
C7_StoreOnlyAfterLogin ==
    db.value \in Stores => succeeded /\ db.options # <<LogInFirst>>

C7_StoreSelected == db.value \in Stores /\ Len(login_output) = 1

\* C8: the text form of a filter mapping with string keys and scalar values
\* parses, the parsed value is that mapping, and its text form is the text
\* parsed.
C8_RoundTrip ==
    /\ rtStage \in {"parsed", "again"} => rtParsed.ok /\ rtParsed.val = rtMap
    /\ rtStage = "again" => rtAgain = rtText

C8_EscapedRoundTrip ==
    /\ rtStage = "again"
    /\ Len(rtMap.items) = 2
    /\ rtMap.items[1][2] = PyStr(<<"'", "\"">>)
    /\ rtMap.items[2][2] = PyInt(0 - 12)

\* C9: after a search that completes without error the cube region shows the
\* datasets of exactly the files listed, and none under "No results.".
C9_RegionsAgree ==
    last.outcome = "returned" =>
        /\ list_out = NoResults => cl_out.kind # "cubes"
        /\ list_out.kind = "Matching files:" => cl_out = CubeList(list_out.ids)

\* C10: once a login has succeeded, whenever the current client lists the
\* selected store, the sub-collection options are the list it gives for it.
C10_OptionsFollowClient ==
    (succeeded /\ client.ok /\ Has(client.names, db.value)) =>
        coll.options = Lookup(client.names, db.value)

\* C11: an authenticate call that fails leaves the client, the store
\* options and the enabled flags of the query input and the Search button
\* as they were.
C11_FailureChangesNothing ==
    [][login_output' = Append(login_output, MsgFailure)
       => /\ client' = client
          /\ db'.options = db.options
          /\ query'.disabled = query.disabled
          /\ search'.disabled = search.disabled]_vars

\* C12: when the query text does not parse, on_button_click ends in the
\* error literal_eval raises: no query is sent and the output regions, the
\* client and the widgets stay as they were.
C12_ParseFailureTouchesNothing ==
    [][(~literal_eval(query.value).ok /\ last' # last)
       => /\ last' = Ran("literal_eval raised")
          /\ UNCHANGED <<list_out, cl_out, client, db, coll, query, search>>]_vars

C12_FailedAfterResults ==
    /\ last.outcome = "literal_eval raised" /\ last.steps = <<>>
    /\ list_out.kind = "Matching files:" /\ cl_out.kind = "cubes"
    /\ ~literal_eval(query.value).ok

\* C13: every authenticate call appends exactly one message and constructs
\* at most one client; the success message comes with the client this call
\* constructed bound, its store names as the store options and the query
\* input and Search button enabled; the failure message comes with the
\* enabled flags untouched.
C13_OneMessagePerLogin ==
    [][login_output' # login_output
       => /\ \E m \in {MsgSuccess, MsgFailure} : login_output' = Append(login_output, m)
          /\ Cardinality(live' \ live) <= 1
          /\ login_output'[Len(login_output')] = MsgSuccess
             => /\ client'.id = Len(login_output') /\ client'.ok
                /\ db'.options = Keys(client'.names)
                /\ ~query'.disabled /\ ~search'.disabled
          /\ login_output'[Len(login_output')] = MsgFailure
             => /\ query'.disabled = query.disabled
                /\ search'.disabled = search.disabled]_vars

C13_FailureThenSuccess ==
    /\ login_output = <<MsgFailure, MsgSuccess>>
    /\ client.id = 2 /\ db.options = Keys(client.names)
    /\ ~query.disabled /\ ~search.disabled

\* C14: for a non-empty deduplicated result handle_query writes the file
\* list, then shows "...", then calls iris.load, then replaces "..." by the
\* cubes; if iris.load raises, "..." stays displayed.
C14_RenderOrder ==
    (QueryReturned /\ list_out.ids # <<>>) =>
        /\ list_out = MatchingFiles(list_out.ids)
        /\ last.outcome = "returned"
           => /\ last.steps = <<"client.query", "list_out", "cl_out: ...",
                               "iris.load", "cl_out: cubes">>
              /\ cl_out = CubeList(list_out.ids)
        /\ last.outcome = "handle_query raised"
           => /\ last.steps = <<"client.query", "list_out", "cl_out: ...", "iris.load">>
              /\ cl_out = Dots

C14_DecodeRaised ==
    /\ last.outcome = "handle_query raised"
    /\ list_out.kind = "Matching files:" /\ cl_out = Dots

====
